---------------------------- MODULE Spec2Model ----------------------------
(***************************************************************************)
(* Model of the Yubico PAM module (src/pam_yubico.py).                     *)
(*                                                                         *)
(* Python strings are modelled as sequences of one-character strings, so   *)
(* that strip, split, slicing, len, int() and %-formatting are computed    *)
(* the way the interpreter computes them.  One authentication attempt      *)
(* (pam_sm_authenticate) is a run from pc = "idle" to pc = "returned" or   *)
(* pc = "raised"; the process then serves the next attempt.  The mapping   *)
(* files (fs) and the logging module's disable switch are the only state   *)
(* that outlives an attempt.                                               *)
(***************************************************************************)
EXTENDS Integers, Sequences, FiniteSets, TLC

(***************************************************************************)
(* Program constants (src/pam_yubico.py lines 27-31).                      *)
(***************************************************************************)
CLIENT_ID_LENGTH == 12
TOKEN_LENGTH == 44

API_URL ==
  << "h","t","t","p","s",":","/","/","a","p","i",".","y","u","b","i","c","o",
     ".","c","o","m","/","w","s","a","p","i","/","v","e","r","i","f","y","?",
     "i","d","=","%","s","&","o","t","p","=","%","s" >>

KEYS_MAPPING_DIRECTORY_NAME == << ".","y","u","b","i","c","o" >>
KEYS_MAPPING_FILE_NAME ==
  << "a","u","t","h","o","r","i","z","e","d","_","y","u","b","i","k","e","y","s" >>

(***************************************************************************)
(* Bounds of the model.                                                    *)
(***************************************************************************)
MaxArgs == 2      \* longest directive list drawn from Directives
MaxLines == 3     \* most lines in the two mapping files together

(***************************************************************************)
(* Python string primitives.                                               *)
(***************************************************************************)
Range(s) == { s[i] : i \in 1..Len(s) }

Whitespace == { " ", "\n", "\t", "\r" }

\* s[from:] for a 1-based index
Suffix(s, from) == SubSeq(s, from, Len(s))

\* s[:n]: safe when s is shorter than n
Prefix(s, n) == SubSeq(s, 1, IF Len(s) < n THEN Len(s) ELSE n)

\* str.strip(): drops leading and trailing whitespace
Strip(s) ==
  LET keep == { i \in 1..Len(s) : s[i] \notin Whitespace }
  IN  IF keep = {} THEN << >>
      ELSE LET lo == CHOOSE i \in keep : \A j \in keep : i <= j
               hi == CHOOSE i \in keep : \A j \in keep : j <= i
           IN  SubSeq(s, lo, hi)

\* positions where sep occurs in s
Occurrences(s, sep) ==
  { i \in 1..(Len(s) - Len(sep) + 1) : SubSeq(s, i, i + Len(sep) - 1) = sep }

\* str.split(sep) for a non-empty separator: always at least one field
RECURSIVE Split(_, _)
Split(s, sep) ==
  LET occ == Occurrences(s, sep)
  IN  IF occ = {} THEN << s >>
      ELSE LET i == CHOOSE k \in occ : \A j \in occ : k <= j
           IN  << SubSeq(s, 1, i - 1) >> \o Split(Suffix(s, i + Len(sep)), sep)

Digits == << "0","1","2","3","4","5","6","7","8","9" >>

DigitValue(c) == (CHOOSE d \in 1..10 : Digits[d] = c) - 1

RECURSIVE DecimalValue(_)
DecimalValue(ds) ==
  IF ds = << >> THEN 0
  ELSE 10 * DecimalValue(SubSeq(ds, 1, Len(ds) - 1)) + DigitValue(ds[Len(ds)])

\* the digits of int(value): whitespace stripped, one optional sign dropped
IntBody(value) ==
  LET t == Strip(value)
  IN  IF t # << >> /\ t[1] \in { "+", "-" } THEN Suffix(t, 2) ELSE t

\* int(value) raises ValueError unless the text is an optionally signed
\* non-empty run of decimal digits
IsIntLiteral(value) ==
  /\ IntBody(value) # << >>
  /\ Range(IntBody(value)) \subseteq Range(Digits)

\* int(value)
IntValue(value) ==
  LET t == Strip(value)
      n == DecimalValue(IntBody(value))
  IN  IF t[1] = "-" THEN 0 - n ELSE n

RECURSIVE NatToStr(_)
NatToStr(n) ==
  IF n < 10 THEN << Digits[n + 1] >>
  ELSE NatToStr(n \div 10) \o << Digits[(n % 10) + 1] >>

\* str(n) for an integer, as the %s conversion prints it
IntToStr(n) == IF n < 0 THEN << "-" >> \o NatToStr(0 - n) ELSE NatToStr(n)


\* the conversion specifiers of a format string (only %s is drawn as input)
Slots(template) == Occurrences(template, << "%","s" >>)

\* template % (a, b) raises TypeError unless it has exactly two slots
FormatFits(template) == Cardinality(Slots(template)) = 2

\* template % (a, b): the first slot takes a, the second takes b
Format(template, a, b) ==
  LET parts == Split(template, << "%","s" >>)
  IN  parts[1] \o a \o parts[2] \o b \o parts[3]

(***************************************************************************)
(* Inputs of the model: user names, device ids, tokens, mapping-file       *)
(* lines, directives and remote outcomes.                                  *)
(***************************************************************************)
alice == << "a","l","i","c","e" >>
bob == << "b","o","b" >>
Users == { alice, bob }

idA == [ i \in 1..CLIENT_ID_LENGTH |-> "a" ]
idB == [ i \in 1..CLIENT_ID_LENGTH |-> "b" ]

\* n copies of the character c
Fill(c, n) == [ i \in 1..n |-> c ]

Tokens ==
  { << >>,
    Fill("a", 4),
    idA,
    idA \o Fill("c", TOKEN_LENGTH - CLIENT_ID_LENGTH - 1),
    idA \o Fill("c", TOKEN_LENGTH - CLIENT_ID_LENGTH),
    idA \o Fill("c", TOKEN_LENGTH - CLIENT_ID_LENGTH + 1),
    idB \o Fill("c", TOKEN_LENGTH - CLIENT_ID_LENGTH) }

\* raw lines as readline() returns them, newline included
LineAliceA == alice \o << ":" >> \o idA \o << "\n" >>
LineAliceB == << " " >> \o alice \o << ":" >> \o idB \o << ":","x","\n" >>
LineNoColon == bob \o << "\n" >>
LineShortId == bob \o << ":","s","h","o","r","t","\n" >>
Lines == { LineAliceA, LineAliceB, LineNoColon, LineShortId }

GlobalPath == << "/","g" >>
Home == << "/","h" >>

ArgId == << "i","d","=","4","2" >>
ArgIdBad == << "i","d","=","x" >>
ArgAlwaysOk == << "a","l","w","a","y","s","o","k","=","1" >>
ArgAlwaysOk2 == << "a","l","w","a","y","s","o","k","=","2" >>
ArgAuthfile == << "a","u","t","h","f","i","l","e","=" >> \o GlobalPath
ArgUrl == << "u","r","l","=","x","?","i","d","=","%","s","&","o","t","p","=","%","s" >>
ArgUrlPlain == << "u","r","l","=","x","/","%","s","/","%","s" >>
ArgGarbage == << "g","a","r","b","a","g","e" >>
ArgUnknown == << "f","o","o","=","b","a","r" >>
ArgDebug == << "d","e","b","u","g" >>
ArgDebugValue == << "d","e","b","u","g","=","1" >>
Directives ==
  { ArgId, ArgIdBad, ArgAlwaysOk, ArgAlwaysOk2, ArgAuthfile, ArgUrl, ArgUrlPlain,
    ArgGarbage, ArgUnknown, ArgDebug, ArgDebugValue }

\* what urlopen(...).read() yields: a response body, or IOError
BodyOk == << "s","t","a","t","u","s","=","O","K","\n" >>
BodyBadOtp == << "s","t","a","t","u","s","=","B","A","D","_","O","T","P","\n","o","t","h","e","r","=","x" >>
BodyOkThenField == << "s","t","a","t","u","s","=","O","K","\n","t","=","1" >>
BodyTwoStatus == << "s","t","a","t","u","s","=","O","K","\n","s","t","a","t","u","s","=","N","O" >>
BodyNoStatus == << "t","=","1" >>
Bodies == { BodyOk, BodyBadOtp, BodyOkThenField, BodyTwoStatus, BodyNoStatus }
TransportFailure == << >>
Outcomes == { << body >> : body \in Bodies } \cup { TransportFailure }

\* all sequences over S of length at most n
SeqsUpTo(S, n) == UNION { [ 1..k -> S ] : k \in 0..n }

(***************************************************************************)
(* Python values held by the arguments dictionary: None, a bool, an int or *)
(* a str, tagged with their type.                                          *)
(***************************************************************************)
PyNone == [ type |-> "NoneType", b |-> FALSE, n |-> 0, s |-> << >> ]
PyBool(x) == [ type |-> "bool", b |-> x, n |-> 0, s |-> << >> ]
PyInt(x) == [ type |-> "int", b |-> FALSE, n |-> x, s |-> << >> ]
PyStr(x) == [ type |-> "str", b |-> FALSE, n |-> 0, s |-> x ]

\* the truth value Python gives v in a condition
Truthy(v) ==
  CASE v.type = "NoneType" -> FALSE
    [] v.type = "bool" -> v.b
    [] v.type = "int" -> v.n # 0
    [] v.type = "str" -> v.s # << >>

KeyId == << "i","d" >>
KeyDebug == << "d","e","b","u","g" >>
KeyAlwaysOk == << "a","l","w","a","y","s","o","k" >>
KeyAuthfile == << "a","u","t","h","f","i","l","e" >>
KeyUrl == << "u","r","l" >>

\* the defaults of _parse_arguments
DefaultArguments ==
  [ k \in { KeyId, KeyDebug, KeyAlwaysOk, KeyAuthfile, KeyUrl } |->
      CASE k = KeyId -> PyInt(0 - 1)
        [] k = KeyDebug -> PyBool(FALSE)
        [] k = KeyAlwaysOk -> PyInt(0)
        [] k = KeyAuthfile -> PyNone
        [] k = KeyUrl -> PyStr(API_URL) ]

\* the keys whose value goes through int()
IntegerKeys == { KeyId, KeyAlwaysOk }

\* argument.split('=')
DirectiveFields(argument) == Split(argument, << "=" >>)

\* len(argument.split('=')) != 2: the directive is skipped
DirectiveSkipped(argument) == Len(DirectiveFields(argument)) # 2

\* 'debug' in args
DebugListed(args) == KeyDebug \in Range(args)

\* d[key] = value on a dictionary d
DictSet(d, key, value) ==
  [ k \in DOMAIN d \cup { key } |-> IF k = key THEN value ELSE d[k] ]

(***************************************************************************)
(* The mapping files.  A file system gives, for the global mapping file    *)
(* and for the user's own one, << >> when the file does not exist and      *)
(* << lines >> when it does.                                               *)
(***************************************************************************)
\* os.path.join(os.path.expanduser('~'), '.yubico/') + 'authorized_yubikeys'
UserKeyFile ==
  Home \o << "/" >> \o KEYS_MAPPING_DIRECTORY_NAME \o << "/" >> \o KEYS_MAPPING_FILE_NAME

FileChoices == { << >> } \cup { << c >> : c \in SeqsUpTo(Lines, MaxLines) }

LineCount(f) == IF f = << >> THEN 0 ELSE Len(f[1])

FileSystems ==
  { f \in [ global : FileChoices, user : FileChoices ] :
      LineCount(f.global) + LineCount(f.user) <= MaxLines }

\* the file system every directive list is tried on
BaseFileSystem == [ global |-> << >>, user |-> << << LineAliceA >> >> ]

\* the directive lists tried on file system f: all of them on the base file
\* system, and on any other the one that makes its files be read
ArgvChoices(f) ==
  IF f = BaseFileSystem THEN SeqsUpTo(Directives, MaxArgs)
  ELSE IF f.global # << >> THEN { << ArgAuthfile >> } ELSE { << >> }

(***************************************************************************)
(* State.                                                                  *)
(***************************************************************************)
VARIABLES
  fs,               \* the mapping files on disk
  logging_disabled, \* logging.disable(FATAL) was called in this process
  pc,               \* where the current attempt stands
  user,             \* pamh.user
  argv,             \* the directive list handed to pam_sm_authenticate
  arguments,        \* the dictionary _parse_arguments builds and returns
  ai,               \* position of the directive loop in argv
  mapping_files,    \* the candidate files of _parse_mapping_files
  fi,               \* position of the file loop in mapping_files
  li,               \* position of the line loop in the current file
  mappings,         \* the dictionary _parse_mapping_files builds
  user_mappings,    \* what _parse_mapping_files returned
  prompts,          \* calls of pamh.conversation in this attempt
  otp,              \* the token the conversation returned
  client_id,        \* otp[:12]
  calls,            \* the (api_url, client_id, otp) of each _check_otp call
  requests,         \* the urls opened by urllib.urlopen in this attempt
  response,         \* << body >> once _check_otp has read a response body
  valid_otp,        \* what _check_otp returned
  result,           \* the PAM code returned, "none" before
  exc,              \* the exception that left pam_sm_authenticate, "none" if none
  log               \* the lines this attempt wrote to the log file

vars ==
  << fs, logging_disabled, pc, user, argv, arguments, ai, mapping_files, fi, li,
     mappings, user_mappings, prompts, otp, client_id, calls, requests,
     response, valid_otp, result, exc, log >>

process == << fs, logging_disabled >>
inputs == << user, argv >>
argstate == << arguments, ai >>
filestate == << mapping_files, fi, li, mappings, user_mappings >>
tokenstate == << prompts, otp, client_id >>
remotestate == << calls, requests, response, valid_otp >>

PAM_SUCCESS == "PAM_SUCCESS"
PAM_AUTH_ERR == "PAM_AUTH_ERR"
PAM_AUTHINFO_UNAVAIL == "PAM_AUTHINFO_UNAVAIL"

EmptyDict == << >>

\* logging.debug(msg): written unless logging is disabled
Emit(lines, disabled, msg) == IF disabled THEN lines ELSE Append(lines, msg)

\* an exception leaves pam_sm_authenticate
Raise(e) == pc' = "raised" /\ exc' = e /\ result' = result

\* pam_sm_authenticate returns code
ReturnCode(code) == pc' = "returned" /\ result' = code /\ exc' = exc

\* the attempt goes on at label
Goto(label) == pc' = label /\ result' = result /\ exc' = exc

Init ==
  /\ fs \in FileSystems
  /\ logging_disabled = FALSE
  /\ pc = "idle"
  /\ user = << >>
  /\ argv = << >>
  /\ arguments = DefaultArguments
  /\ ai = 0
  /\ mapping_files = << >>
  /\ fi = 0
  /\ li = 0
  /\ mappings = EmptyDict
  /\ user_mappings = EmptyDict
  /\ prompts = 0
  /\ otp = << >>
  /\ client_id = << >>
  /\ calls = << >>
  /\ requests = << >>
  /\ response = << >>
  /\ valid_otp = FALSE
  /\ result = "none"
  /\ exc = "none"
  /\ log = << >>

(***************************************************************************)
(* pam_sm_authenticate is entered: user = pamh.user, then _parse_arguments *)
(* is called.                                                              *)
(***************************************************************************)
Authenticate(u, a) ==
  /\ pc = "idle"
  /\ user' = u
  /\ argv' = a
  /\ Goto("parse_arguments")
  /\ UNCHANGED << process, argstate, filestate, tokenstate, remotestate, log >>

(***************************************************************************)
(* _parse_arguments.                                                       *)
(***************************************************************************)
\* the head of _parse_arguments: the defaults, the debug switch, the first
\* log line
ParseArgumentsEnter ==
  /\ pc = "parse_arguments"
  /\ IF argv # << >>
       THEN /\ arguments' =
                 IF DebugListed(argv)
                   THEN DictSet(DefaultArguments, KeyDebug, PyBool(TRUE))
                   ELSE DefaultArguments
            /\ logging_disabled' = (logging_disabled \/ ~DebugListed(argv))
            /\ log' = Emit(log, logging_disabled', "Arguments")
            /\ ai' = 1
            /\ Goto("directive")
       ELSE /\ arguments' = DefaultArguments
            /\ ai' = 0
            /\ Goto("parse_mapping_files")
            /\ UNCHANGED << logging_disabled, log >>
  /\ UNCHANGED << fs, inputs, filestate, tokenstate, remotestate >>

\* the value a key=value directive stores: int(value) for id and alwaysok
DirectiveValue(key, value) ==
  IF key \in IntegerKeys THEN PyInt(IntValue(value)) ELSE PyStr(value)

\* int(value) raises ValueError
DirectiveRaises(key, value) == key \in IntegerKeys /\ ~IsIntLiteral(value)

\* one pass of the for loop over args
ParseDirective ==
  /\ pc = "directive"
  /\ ai <= Len(argv)
  /\ ai' = ai + 1
  /\ LET fields == DirectiveFields(argv[ai])
         key == fields[1]
         value == fields[2]
     IN  IF DirectiveSkipped(argv[ai])
           THEN Goto("directive") /\ UNCHANGED << arguments, log >>
         ELSE IF key \notin DOMAIN arguments
           THEN Goto("directive") /\ UNCHANGED << arguments, log >>
         ELSE IF DirectiveRaises(key, value)
           THEN Raise("ValueError") /\ UNCHANGED << arguments, log >>
         ELSE /\ arguments' = DictSet(arguments, key, DirectiveValue(key, value))
              /\ log' = Emit(log, logging_disabled, "key = value")
              /\ Goto("directive")
  /\ UNCHANGED << process, inputs, filestate, tokenstate, remotestate >>

\* the for loop is over
ParseDirectivesDone ==
  /\ pc = "directive"
  /\ ai > Len(argv)
  /\ Goto("parse_mapping_files")
  /\ UNCHANGED << process, inputs, argstate, filestate, tokenstate, remotestate, log >>

(***************************************************************************)
(* _parse_mapping_files(arguments['authfile']).                            *)
(***************************************************************************)
\* the file at path: << >> when there is none
FileAt(f, path) ==
  IF path = GlobalPath THEN f.global
  ELSE IF path = UserKeyFile THEN f.user
  ELSE << >>

\* os.path.exists(path)
Exists(f, path) == FileAt(f, path) # << >>

\* variant of CandidateFiles: the user's own file is read first
CandidateFilesUserFirst(auth_file, f) ==
  (IF Exists(f, UserKeyFile) THEN << UserKeyFile >> ELSE << >>)
    \o (IF Truthy(auth_file) /\ Exists(f, auth_file.s) THEN << auth_file.s >> ELSE << >>)

\* the candidate files, in reading order: the global mapping file when it
\* is set and exists, then the user's own file when it exists
CandidateFiles(auth_file, f) ==
  (IF Truthy(auth_file) /\ Exists(f, auth_file.s) THEN << auth_file.s >> ELSE << >>)
    \o (IF Exists(f, UserKeyFile) THEN << UserKeyFile >> ELSE << >>)

\* the head of _parse_mapping_files: the empty dictionary and the file list
MappingFilesEnter ==
  /\ pc = "parse_mapping_files"
  /\ mappings' = EmptyDict
  /\ mapping_files' = CandidateFiles(arguments[KeyAuthfile], fs)
  /\ log' =
       LET found == Truthy(arguments[KeyAuthfile]) /\ Exists(fs, arguments[KeyAuthfile].s)
           l1 == IF found THEN Emit(log, logging_disabled, "Global mapping file found")
                 ELSE log
       IN  IF Exists(fs, UserKeyFile)
             THEN Emit(l1, logging_disabled, "User mapping file found")
             ELSE l1
  /\ fi' = 1
  /\ li' = 1
  /\ Goto("line")
  /\ UNCHANGED << process, inputs, argstate, user_mappings, tokenstate, remotestate >>

\* the lines of the file being read
CurrentLines == FileAt(fs, mapping_files[fi])[1]

\* line.strip().split(':')
LineFields(line) == Split(Strip(line), << ":" >>)

\* line_split[1] raises IndexError: the line has no second field
LineRaises(line) == Len(LineFields(line)) < 2

\* variant of LineSkipped: only an id that is too long is refused
LineSkippedTooLongOnly(line) == Len(LineFields(line)[2]) > CLIENT_ID_LENGTH

\* len(client_id) != CLIENT_ID_LENGTH: the line is skipped
LineSkipped(line) == Len(LineFields(line)[2]) # CLIENT_ID_LENGTH

\* variant of ReadLine: the 'continue' branch reads a line of its own before
\* the finally clause reads the next one, so the line after a skipped line is
\* passed over
ReadLineTwiceOnContinue ==
  /\ pc = "line"
  /\ fi <= Len(mapping_files)
  /\ li <= Len(CurrentLines)
  /\ LET line == CurrentLines[li]
         fields == LineFields(line)
     IN  IF LineRaises(line)
           THEN li' = li + 1 /\ Raise("IndexError") /\ UNCHANGED mappings
         ELSE IF LineSkipped(line)
           THEN li' = li + 2 /\ Goto("line") /\ UNCHANGED mappings
         ELSE /\ li' = li + 1
              /\ Goto("line")
              /\ mappings' = DictSet(mappings, fields[1], fields[2])
  /\ UNCHANGED << process, inputs, argstate, mapping_files, fi, user_mappings,
                  tokenstate, remotestate, log >>

\* one pass of the while loop over the lines of a file; the finally clause
\* reads the next line on every way out of the try block
ReadLine ==
  /\ pc = "line"
  /\ fi <= Len(mapping_files)
  /\ li <= Len(CurrentLines)
  /\ li' = li + 1
  /\ LET line == CurrentLines[li]
         fields == LineFields(line)
     IN  IF LineRaises(line)
           THEN Raise("IndexError") /\ UNCHANGED mappings
         ELSE IF LineSkipped(line)
           THEN Goto("line") /\ UNCHANGED mappings
         ELSE Goto("line") /\ mappings' = DictSet(mappings, fields[1], fields[2])
  /\ UNCHANGED << process, inputs, argstate, mapping_files, fi, user_mappings,
                  tokenstate, remotestate, log >>

\* readline() returned '': the file is closed and the next one is opened
NextFile ==
  /\ pc = "line"
  /\ fi <= Len(mapping_files)
  /\ li > Len(CurrentLines)
  /\ fi' = fi + 1
  /\ li' = 1
  /\ Goto("line")
  /\ UNCHANGED << process, inputs, argstate, mapping_files, mappings, user_mappings,
                  tokenstate, remotestate, log >>

\* return mappings
MappingFilesReturn ==
  /\ pc = "line"
  /\ fi > Len(mapping_files)
  /\ user_mappings' = mappings
  /\ Goto("identity")
  /\ UNCHANGED << process, inputs, argstate, mapping_files, fi, li, mappings,
                  tokenstate, remotestate, log >>

(***************************************************************************)
(* The checks of pam_sm_authenticate, in the order of the code.            *)
(***************************************************************************)
\* if not user in user_mappings
IdentityCheck ==
  /\ pc = "identity"
  /\ IF user \notin DOMAIN user_mappings
       THEN /\ log' = Emit(log, logging_disabled, "No client ID is set for user")
            /\ ReturnCode(PAM_AUTHINFO_UNAVAIL)
       ELSE /\ log' = log
            /\ Goto("conversation")
  /\ UNCHANGED << process, inputs, argstate, filestate, tokenstate, remotestate >>

\* otp[:12]
ClientIdOf(token) == Prefix(token, 12)

\* variant of Conversation: an empty answer makes the prompt be shown again
ConversationAsksAgain(token) ==
  /\ pc = "conversation"
  /\ prompts' = prompts + (IF token = << >> THEN 2 ELSE 1)
  /\ otp' = token
  /\ client_id' = ClientIdOf(token)
  /\ log' = Emit(Emit(log, logging_disabled, "OTP"), logging_disabled, "client ID")
  /\ Goto("bypass")
  /\ UNCHANGED << process, inputs, argstate, filestate, remotestate >>

\* pamh.conversation(prompt).resp, then the two log lines
Conversation(token) ==
  /\ pc = "conversation"
  /\ prompts' = prompts + 1
  /\ otp' = token
  /\ client_id' = ClientIdOf(token)
  /\ log' = Emit(Emit(log, logging_disabled, "OTP"), logging_disabled, "client ID")
  /\ Goto("bypass")
  /\ UNCHANGED << process, inputs, argstate, filestate, remotestate >>

\* variant of BypassEnabled: the switch an earlier attempt left behind in
\* the process takes part in the test
BypassEnabledOrQuiet(args) == args[KeyAlwaysOk] = PyInt(1) \/ logging_disabled

\* variant of BypassEnabled: the value is compared with the text '1'
BypassEnabledAsText(args) == args[KeyAlwaysOk] = PyStr(<< "1" >>)

\* arguments['alwaysok'] == 1
BypassEnabled(args) == args[KeyAlwaysOk] = PyInt(1)

BypassCheck ==
  /\ pc = "bypass"
  /\ IF BypassEnabled(arguments)
       THEN /\ log' = Emit(log, logging_disabled, "Presenation mode is ON")
            /\ ReturnCode(PAM_SUCCESS)
       ELSE /\ log' = log
            /\ Goto("match")
  /\ UNCHANGED << process, inputs, argstate, filestate, tokenstate, remotestate >>

\* variant of ClientIdMismatch: the id provided need only begin the mapped id
ClientIdMismatchUnlessPrefix(expected, provided) ==
  Prefix(expected, Len(provided)) # provided

\* variant of ClientIdMismatch: only the lengths are compared
ClientIdMismatchByLength(expected, provided) == Len(expected) # Len(provided)

\* user_mappings[user] != client_id
ClientIdMismatch(expected, provided) == expected # provided

MatchCheck ==
  /\ pc = "match"
  /\ IF ClientIdMismatch(user_mappings[user], client_id)
       THEN /\ log' = Emit(log, logging_disabled, "Client ID does not match")
            /\ ReturnCode(PAM_AUTH_ERR)
       ELSE /\ log' = log
            /\ Goto("empty")
  /\ UNCHANGED << process, inputs, argstate, filestate, tokenstate, remotestate >>

\* not otp
NoOtp(token) == token = << >>

EmptyCheck ==
  /\ pc = "empty"
  /\ IF NoOtp(otp)
       THEN /\ log' = Emit(log, logging_disabled, "No OTP provided")
            /\ ReturnCode(PAM_AUTH_ERR)
       ELSE /\ log' = log
            /\ Goto("length")
  /\ UNCHANGED << process, inputs, argstate, filestate, tokenstate, remotestate >>

\* variant of InvalidLength: only a token that is too short is refused
InvalidLengthTooShortOnly(token) == Len(token) < TOKEN_LENGTH

\* len(otp) != TOKEN_LENGTH
InvalidLength(token) == Len(token) # TOKEN_LENGTH

LengthCheck ==
  /\ pc = "length"
  /\ IF InvalidLength(otp)
       THEN /\ log' = Emit(log, logging_disabled, "Invalid OTP length")
            /\ ReturnCode(PAM_AUTH_ERR)
       ELSE /\ log' = log
            /\ Goto("check_otp")
  /\ UNCHANGED << process, inputs, argstate, filestate, tokenstate, remotestate >>

(***************************************************************************)
(* _check_otp(arguments['url'], arguments['id'], otp).                     *)
(***************************************************************************)
StatusMarker == << "s","t","a","t","u","s","=" >>

\* response.split('status=')[1] raises IndexError: no 'status=' in the body
StatusMissing(body) == Len(Split(body, StatusMarker)) < 2

\* response.split('status=')[1].strip()
StatusOf(body) == Strip(Split(body, StatusMarker)[2])

\* status == 'OK'
StatusValid(status) == status = << "O","K" >>

\* the url opened: api_url % (client_id, otp)
RequestUrl(api_url, id, token) == Format(api_url.s, IntToStr(id.n), token)

\* the whole call: the url is formatted, opened and read (outcome is the
\* body read, or the transport failure), and the status is parsed
CheckOtp(outcome) ==
  /\ pc = "check_otp"
  /\ calls' = Append(calls, << arguments[KeyUrl], arguments[KeyId], otp >>)
  /\ IF ~FormatFits(arguments[KeyUrl].s)
       THEN Raise("TypeError") /\ UNCHANGED << requests, response, valid_otp, log >>
     ELSE /\ requests' = Append(requests, RequestUrl(arguments[KeyUrl], arguments[KeyId], otp))
          /\ IF outcome = TransportFailure
               THEN Raise("IOError") /\ UNCHANGED << response, valid_otp, log >>
             ELSE IF StatusMissing(outcome[1])
               THEN /\ response' = outcome
                    /\ Raise("IndexError")
                    /\ UNCHANGED << valid_otp, log >>
             ELSE /\ response' = outcome
                  /\ log' = Emit(log, logging_disabled, "Yubico server returned: status")
                  /\ valid_otp' = StatusValid(StatusOf(outcome[1]))
                  /\ Goto("verdict")
  /\ UNCHANGED << process, inputs, argstate, filestate, tokenstate >>

\* variant of VerdictOf: the test of valid_otp is dropped
VerdictOfUntested(valid) == PAM_SUCCESS

\* variant of VerdictOf: the test of valid_otp is inverted
VerdictOfInverted(valid) == IF valid THEN PAM_AUTH_ERR ELSE PAM_SUCCESS

\* the code returned for what _check_otp returned
VerdictOf(valid) == IF valid THEN PAM_SUCCESS ELSE PAM_AUTH_ERR

\* if not valid_otp: ... return PAM_AUTH_ERR; return PAM_SUCCESS
Verdict ==
  /\ pc = "verdict"
  /\ log' = Emit(log, logging_disabled,
                 IF valid_otp THEN "Sucess, the provided OTP is OK"
                 ELSE "Error, the provided OTP is invalid")
  /\ ReturnCode(VerdictOf(valid_otp))
  /\ UNCHANGED << process, inputs, argstate, filestate, tokenstate, remotestate >>

\* the attempt is over: its locals are dropped and the process waits for
\* the next attempt
Finish ==
  /\ pc \in { "returned", "raised" }
  /\ pc' = "idle"
  /\ user' = << >>
  /\ argv' = << >>
  /\ arguments' = DefaultArguments
  /\ ai' = 0
  /\ mapping_files' = << >>
  /\ fi' = 0
  /\ li' = 0
  /\ mappings' = EmptyDict
  /\ user_mappings' = EmptyDict
  /\ prompts' = 0
  /\ otp' = << >>
  /\ client_id' = << >>
  /\ calls' = << >>
  /\ requests' = << >>
  /\ response' = << >>
  /\ valid_otp' = FALSE
  /\ result' = "none"
  /\ exc' = "none"
  /\ log' = << >>
  /\ UNCHANGED process

\* what a file with contents c can hold after one change: it is removed, it
\* is created or emptied, or a line is appended to it
WrittenOnce(c) ==
  { << >>, << << >> >> }
    \cup (IF c = << >> THEN {} ELSE { << Append(c[1], l) >> : l \in Lines })

\* between two attempts somebody else changes one of the mapping files; the
\* next attempt tests and opens the files as they are then
EditMappingFile ==
  /\ pc = "idle"
  /\ \E f \in [ global : WrittenOnce(fs.global), user : { fs.user } ]
                \cup [ global : { fs.global }, user : WrittenOnce(fs.user) ] :
       /\ f # fs
       /\ LineCount(f.global) + LineCount(f.user) <= MaxLines
       /\ fs' = f
  /\ UNCHANGED << logging_disabled, pc, result, exc, inputs, argstate, filestate,
                  tokenstate, remotestate, log >>

Next ==
  \/ EditMappingFile
  \/ \E u \in Users, a \in ArgvChoices(fs) : Authenticate(u, a)
  \/ ParseArgumentsEnter
  \/ ParseDirective
  \/ ParseDirectivesDone
  \/ MappingFilesEnter
  \/ ReadLine
  \/ NextFile
  \/ MappingFilesReturn
  \/ IdentityCheck
  \/ \E token \in Tokens : Conversation(token)
  \/ BypassCheck
  \/ MatchCheck
  \/ EmptyCheck
  \/ LengthCheck
  \/ \E outcome \in Outcomes : CheckOtp(outcome)
  \/ Verdict
  \/ Finish

Spec == Init /\ [][Next]_vars

(***************************************************************************)
(* Vocabulary of the properties.                                           *)
(***************************************************************************)
\* the attempt is over
Terminated == pc \in { "returned", "raised" }

\* the mapping files the attempt consults, global file first: the lines of
\* the configured global file, then those of the user's own file
ConsultedLines ==
  (IF arguments[KeyAuthfile].type = "str" /\ arguments[KeyAuthfile].s # << >>
        /\ FileAt(fs, arguments[KeyAuthfile].s) # << >>
     THEN FileAt(fs, arguments[KeyAuthfile].s)[1] ELSE << >>)
    \o (IF fs.user # << >> THEN fs.user[1] ELSE << >>)

\* a well-formed line: trimmed, it has at least two colon-separated fields
\* and its second field has the length of a device id
WellFormed(line) ==
  /\ Len(Split(Strip(line), << ":" >>)) >= 2
  /\ Len(Split(Strip(line), << ":" >>)[2]) = CLIENT_ID_LENGTH

NameOf(line) == Split(Strip(line), << ":" >>)[1]
DeviceIdOf(line) == Split(Strip(line), << ":" >>)[2]

\* u has a well-formed entry in a consulted mapping file
HasWellFormedEntry(u) ==
  \E i \in 1..Len(ConsultedLines) :
    WellFormed(ConsultedLines[i]) /\ NameOf(ConsultedLines[i]) = u

\* bypass (presentation) mode is on for this attempt
BypassOn == arguments[KeyAlwaysOk].type = "int" /\ arguments[KeyAlwaysOk].n = 1

\* the attempt resolved a device id for its user
Mapped == user \in DOMAIN user_mappings

\* the first 12 characters of the token (all of it when it is shorter)
First12(token) == SubSeq(token, 1, IF Len(token) < 12 THEN Len(token) ELSE 12)

(***************************************************************************)
(* C1.  An attempt for a username that has no well-formed entry in any     *)
(* consulted mapping file asks for no token, never calls _check_otp, and   *)
(* the code it returns is PAM_AUTHINFO_UNAVAIL, whatever the directives    *)
(* (bypass mode included).  (That every attempt returns a code at all is   *)
(* the subject of C6.)                                                     *)
(***************************************************************************)
C1_UnknownUserIsUnavailable ==
  (Terminated /\ ~HasWellFormedEntry(user))
    => /\ prompts = 0
       /\ calls = << >>
       /\ pc = "returned" => result = PAM_AUTHINFO_UNAVAIL

C1_Witness ==
  /\ pc = "returned"
  /\ ~HasWellFormedEntry(user)
  /\ BypassOn
  /\ result = PAM_AUTHINFO_UNAVAIL

(***************************************************************************)
(* C2.  With bypass mode on, an attempt of a mapped username returns       *)
(* PAM_SUCCESS for every token, and _check_otp is never called (no url is  *)
(* opened), so the remote outcome plays no part.                           *)
(***************************************************************************)
C2_BypassAlwaysSucceeds ==
  (Terminated /\ Mapped /\ BypassOn)
    => (pc = "returned" /\ result = PAM_SUCCESS /\ calls = << >> /\ requests = << >>)

C2_Witness ==
  /\ pc = "returned"
  /\ Mapped
  /\ BypassOn
  /\ prompts = 1
  /\ First12(otp) # user_mappings[user]
  /\ Len(otp) = TOKEN_LENGTH
  /\ result = PAM_SUCCESS

(***************************************************************************)
(* C3.  With bypass mode off, an attempt of a username mapped to a         *)
(* 12-character device id whose token does not start with that id (tokens  *)
(* shorter than 12 included) returns PAM_AUTH_ERR without any call of      *)
(* _check_otp.                                                             *)
(***************************************************************************)
C3_MismatchIsAuthErr ==
  (Terminated /\ Mapped /\ ~BypassOn /\ prompts = 1
     /\ Len(user_mappings[user]) = 12 /\ First12(otp) # user_mappings[user])
    => (pc = "returned" /\ result = PAM_AUTH_ERR /\ calls = << >> /\ requests = << >>)

C3_Witness ==
  /\ pc = "returned"
  /\ Mapped
  /\ ~BypassOn
  /\ Len(otp) = TOKEN_LENGTH
  /\ First12(otp) # user_mappings[user]
  /\ result = PAM_AUTH_ERR

(***************************************************************************)
(* C4.  With bypass mode off, an attempt of a mapped username whose token  *)
(* starts with the mapped device id but is not 44 characters long returns  *)
(* PAM_AUTH_ERR without any call of _check_otp.                            *)
(***************************************************************************)
C4_WrongLengthIsAuthErr ==
  (Terminated /\ Mapped /\ ~BypassOn /\ prompts = 1
     /\ First12(otp) = user_mappings[user] /\ Len(otp) # 44)
    => (pc = "returned" /\ result = PAM_AUTH_ERR /\ calls = << >> /\ requests = << >>)

C4_Witness ==
  /\ pc = "returned"
  /\ Mapped
  /\ ~BypassOn
  /\ First12(otp) = user_mappings[user]
  /\ Len(otp) = 45
  /\ result = PAM_AUTH_ERR

(***************************************************************************)
(* C5.  With bypass mode off, an attempt of a mapped username whose token  *)
(* has 44 characters and starts with the mapped device id calls _check_otp *)
(* exactly once, with the configured url template, the configured id and   *)
(* the raw token, opens at most one url, and returns PAM_SUCCESS when the  *)
(* call returned true and PAM_AUTH_ERR when it returned false.             *)
(***************************************************************************)
C5_VerifiedOnceAndObeyed ==
  (Terminated /\ Mapped /\ ~BypassOn /\ prompts = 1
     /\ First12(otp) = user_mappings[user] /\ Len(otp) = 44)
    => /\ calls = << << arguments[KeyUrl], arguments[KeyId], otp >> >>
       /\ Len(requests) <= 1
       /\ pc = "returned" =>
            /\ Len(requests) = 1
            /\ valid_otp => result = PAM_SUCCESS
            /\ ~valid_otp => result = PAM_AUTH_ERR

C5_Witness ==
  /\ pc = "returned"
  /\ Mapped
  /\ ~BypassOn
  /\ Len(calls) = 1
  /\ valid_otp
  /\ result = PAM_SUCCESS

(***************************************************************************)
(* C6.  Every attempt ends with exactly one of the three verdicts: no      *)
(* exception leaves pam_sm_authenticate.                                   *)
(***************************************************************************)
C6_EveryAttemptReturnsAVerdict ==
  Terminated =>
    /\ pc = "returned"
    /\ result \in { PAM_SUCCESS, PAM_AUTH_ERR, PAM_AUTHINFO_UNAVAIL }

(***************************************************************************)
(* C7.  _check_otp is a total boolean function of the remote outcome: it   *)
(* raises nothing, and it returns true exactly when the text after the     *)
(* first 'status=' of the body, trimmed, is 'OK' (false when there is no   *)
(* 'status=' and when the transport failed).                               *)
(***************************************************************************)
\* the text of body after the first occurrence of marker
TextAfterFirst(body, marker) ==
  LET occ == Occurrences(body, marker)
      i == CHOOSE k \in occ : \A j \in occ : k <= j
  IN  SubSeq(body, i + Len(marker), Len(body))

\* the body read carries the status OK
StatusSaysOk ==
  /\ response # << >>
  /\ Occurrences(response[1], StatusMarker) # {}
  /\ Strip(TextAfterFirst(response[1], StatusMarker)) = << "O","K" >>

C7_CheckOtpIsTotalBoolean ==
  Len(calls) = 1 => (exc = "none" /\ valid_otp = StatusSaysOk)

(***************************************************************************)
(* C8.  The table _parse_mapping_files returns maps every username to the  *)
(* device id of its last well-formed line, the global file being read      *)
(* before the user's own file: an entry of the user's file wins over one   *)
(* of the global file.                                                     *)
(***************************************************************************)
\* the positions of the well-formed lines of ls that name u
EntriesOf(ls, u) ==
  { i \in 1..Len(ls) : WellFormed(ls[i]) /\ NameOf(ls[i]) = u }

\* the table the well-formed lines of ls define, later lines winning
TableOf(ls) ==
  [ u \in { NameOf(ls[i]) : i \in { j \in 1..Len(ls) : WellFormed(ls[j]) } } |->
      DeviceIdOf(ls[CHOOSE i \in EntriesOf(ls, u) : \A j \in EntriesOf(ls, u) : j <= i]) ]

C8_LastWellFormedEntryWins ==
  pc = "identity" => user_mappings = TableOf(ConsultedLines)

C8_Witness ==
  /\ pc = "identity"
  /\ Len(mapping_files) = 2
  /\ \E i \in 1..Len(fs.global[1]), j \in 1..Len(fs.user[1]) :
       /\ WellFormed(fs.global[1][i]) /\ NameOf(fs.global[1][i]) = alice
       /\ WellFormed(fs.user[1][j]) /\ NameOf(fs.user[1][j]) = alice
       /\ DeviceIdOf(fs.global[1][i]) # DeviceIdOf(fs.user[1][j])
       /\ \A k \in (j + 1)..Len(fs.user[1]) : ~WellFormed(fs.user[1][k])
       /\ user_mappings[alice] = DeviceIdOf(fs.user[1][j])

(***************************************************************************)
(* C9.  Malformed lines are skipped: while the mapping files are read, no  *)
(* line raises an error, and the table built so far is the one defined by  *)
(* the well-formed lines read so far, so that a line with no colon or with *)
(* a device id of the wrong length changes nothing.                        *)
(***************************************************************************)
\* the lines of the j-th candidate file
LinesOfFile(j) == FileAt(fs, mapping_files[j])[1]

\* the lines the loops of _parse_mapping_files have dealt with
ProcessedLines ==
  (IF fi > 1 THEN LinesOfFile(1) ELSE << >>)
    \o (IF fi > 2 THEN LinesOfFile(2) ELSE << >>)
    \o (IF fi >= 1 /\ fi <= Len(mapping_files)
          THEN SubSeq(LinesOfFile(fi), 1, li - 1) ELSE << >>)

\* an exception left _parse_mapping_files
MappingFilesRaised == pc = "raised" /\ fi >= 1 /\ calls = << >>

C9_MalformedLinesAreSkipped ==
  (pc = "line" \/ MappingFilesRaised)
    => (pc = "line" /\ mappings = TableOf(ProcessedLines))

(***************************************************************************)
(* C10.  The configuration _parse_arguments returns holds, for each of the *)
(* keys id, alwaysok and url, the value of the last key=value directive    *)
(* for that key, the value being all the text after the first '=' (so a    *)
(* url template that itself contains '=' is kept whole); directives that   *)
(* are not of that form change nothing.                                    *)
(***************************************************************************)
\* the text of a directive before and after its first '='
KeyPart(d) == SubSeq(d, 1, (CHOOSE k \in Occurrences(d, << "=" >>) :
                              \A j \in Occurrences(d, << "=" >>) : k <= j) - 1)
ValuePart(d) == TextAfterFirst(d, << "=" >>)

\* argv[i] is the last directive of argv for its key
LastForItsKey(i) ==
  \A j \in (i + 1)..Len(argv) :
    Occurrences(argv[j], << "=" >>) = {} \/ KeyPart(argv[j]) # KeyPart(argv[i])

C10_DirectivesSetTheirKeys ==
  pc = "parse_mapping_files" =>
    \A i \in 1..Len(argv) :
      (Occurrences(argv[i], << "=" >>) # {} /\ LastForItsKey(i)) =>
        /\ KeyPart(argv[i]) \in { KeyId, KeyAlwaysOk } =>
             arguments[KeyPart(argv[i])] = PyInt(IntValue(ValuePart(argv[i])))
        /\ KeyPart(argv[i]) = KeyUrl =>
             arguments[KeyUrl] = PyStr(ValuePart(argv[i]))

(***************************************************************************)
(* C11.  A directive alwaysok=n turns bypass mode on for every nonzero     *)
(* integer n and leaves it off for n = 0 and when there is no such         *)
(* directive: with n nonzero, an attempt of a mapped username returns      *)
(* PAM_SUCCESS at the bypass check, with no call of _check_otp; with n = 0 *)
(* PAM_SUCCESS is only returned after a call of _check_otp.                *)
(***************************************************************************)
\* the integer the configuration holds for alwaysok
AlwaysOkNumber == arguments[KeyAlwaysOk].n

C11_NonzeroAlwaysOkBypasses ==
  (Terminated /\ Mapped /\ arguments[KeyAlwaysOk].type = "int")
    => /\ AlwaysOkNumber # 0 =>
            (pc = "returned" /\ result = PAM_SUCCESS /\ calls = << >>)
       /\ AlwaysOkNumber = 0 =>
            ((pc = "returned" /\ result = PAM_SUCCESS) => Len(calls) = 1)

(***************************************************************************)
(* C12.  _parse_arguments raises nothing, whatever the directives: every   *)
(* step of its loop stays in the loop or leaves it normally, and a         *)
(* directive with no '=', a directive with a key the configuration does    *)
(* not have, and an id or alwaysok directive whose value is not an integer *)
(* each leave the whole configuration as it was.                           *)
(***************************************************************************)
\* d is one of the directives that are to be ignored
Ignored(d) ==
  \/ Occurrences(d, << "=" >>) = {}
  \/ KeyPart(d) \notin { KeyId, KeyDebug, KeyAlwaysOk, KeyAuthfile, KeyUrl }
  \/ KeyPart(d) \in { KeyId, KeyAlwaysOk } /\ ~IsIntLiteral(ValuePart(d))

C12_BadDirectivesAreIgnored ==
  [][pc = "directive" =>
       /\ pc' \in { "directive", "parse_mapping_files" }
       /\ (ai <= Len(argv) /\ Ignored(argv[ai])) => arguments' = arguments]_vars

(***************************************************************************)
(* C13.  Within one attempt, diagnostic output is on exactly when the      *)
(* directive list holds a debug directive, bare ('debug') or with any      *)
(* value ('debug=1'): the configuration returned by _parse_arguments has   *)
(* a true debug field exactly then, and an attempt that has returned its   *)
(* code wrote log lines exactly then; with no debug directive (the empty   *)
(* list included) it wrote none.                                           *)
(***************************************************************************)
\* args holds a debug directive, with or without a value
HasDebugDirective(args) ==
  \E i \in 1..Len(args) :
    \/ args[i] = KeyDebug
    \/ Occurrences(args[i], << "=" >>) # {} /\ KeyPart(args[i]) = KeyDebug

C13_DebugDirectiveSwitchesDiagnostics ==
  /\ pc = "parse_mapping_files" =>
       (Truthy(arguments[KeyDebug]) <=> HasDebugDirective(argv))
  /\ pc = "returned" => (log # << >> <=> HasDebugDirective(argv))

(***************************************************************************)
(* C14.  The code an attempt returns is a function of that attempt's own   *)
(* inputs alone: the username, the directive list, the mapping files as    *)
(* they are during the attempt, the token and the body the remote service  *)
(* answered.  Nothing left behind by earlier attempts of the process       *)
(* (the logging switch, an earlier table) and no earlier content of a      *)
(* mapping file plays a part: a file changed between two attempts is read  *)
(* as changed.                                                             *)
(***************************************************************************)
\* the positions in args of the directives key=value, with a single '='
DirectivesFor(args, key) ==
  { i \in 1..Len(args) :
      /\ Cardinality(Occurrences(args[i], << "=" >>)) = 1
      /\ KeyPart(args[i]) = key }

\* the value of the last such directive
LastValue(args, key) ==
  ValuePart(args[CHOOSE i \in DirectivesFor(args, key) :
                   \A j \in DirectivesFor(args, key) : j <= i])

\* the directive list asks for bypass mode in the way the code honours
BypassDirected(args) ==
  /\ DirectivesFor(args, KeyAlwaysOk) # {}
  /\ IsIntLiteral(LastValue(args, KeyAlwaysOk))
  /\ IntValue(LastValue(args, KeyAlwaysOk)) = 1

\* the lines of the files of f that the directive list makes an attempt
\* read: the global file named by the last authfile directive, then the
\* user's own file
LinesRead(args, f) ==
  (IF DirectivesFor(args, KeyAuthfile) # {}
        /\ LastValue(args, KeyAuthfile) = GlobalPath /\ f.global # << >>
     THEN f.global[1] ELSE << >>)
    \o (IF f.user # << >> THEN f.user[1] ELSE << >>)

\* the code determined by the inputs of an attempt
ExpectedVerdict(u, args, f, token, answer) ==
  LET table == TableOf(LinesRead(args, f))
  IN  IF u \notin DOMAIN table THEN PAM_AUTHINFO_UNAVAIL
      ELSE IF BypassDirected(args) THEN PAM_SUCCESS
      ELSE IF First12(token) # table[u] THEN PAM_AUTH_ERR
      ELSE IF Len(token) # 44 THEN PAM_AUTH_ERR
      ELSE IF Strip(Split(answer[1], StatusMarker)[2]) = << "O","K" >>
        THEN PAM_SUCCESS
      ELSE PAM_AUTH_ERR

C14_VerdictDependsOnOwnInputsOnly ==
  pc = "returned" => result = ExpectedVerdict(user, argv, fs, otp, response)

\* an attempt with no directive returns PAM_SUCCESS from files as they were
\* changed after an earlier attempt: logging can only have been switched
\* off by an earlier attempt that had directives, and such an attempt ran
\* on other files, because on these files only the empty list is drawn
C14_Witness ==
  /\ pc = "returned"
  /\ argv = << >>
  /\ logging_disabled
  /\ ArgvChoices(fs) = { << >> }
  /\ Mapped
  /\ result = PAM_SUCCESS

(***************************************************************************)
(* C15.  Attempts of one process are isolated from each other: whether an  *)
(* attempt writes diagnostics depends on its own directives alone, so an   *)
(* attempt whose directive list holds 'debug' writes its log lines         *)
(* whatever the attempts before it were given; an earlier attempt without  *)
(* 'debug' does not switch them off.                                       *)
(***************************************************************************)
\* the directive list of the attempt holds the bare directive 'debug'
DebugAsked == \E i \in 1..Len(argv) : argv[i] = << "d","e","b","u","g" >>

C15_AttemptsAreIsolated ==
  (pc = "returned" /\ DebugAsked) => log # << >>

(***************************************************************************)
(* C16.  PAM_SUCCESS is sound: whenever an attempt has returned            *)
(* PAM_SUCCESS, its username has a device id (from a well-formed entry of  *)
(* a consulted file) and either bypass mode is on, or the first 12         *)
(* characters of the token are that device id, the token has exactly 44    *)
(* characters, and _check_otp was called in this attempt, once, on that    *)
(* very token, and returned true.  There is no other way to PAM_SUCCESS.   *)
(***************************************************************************)
C16_SuccessIsSound ==
  (pc = "returned" /\ result = PAM_SUCCESS)
    => /\ Mapped
       /\ HasWellFormedEntry(user)
       /\ \/ BypassOn
          \/ /\ First12(otp) = user_mappings[user]
             /\ Len(otp) = 44
             /\ Len(calls) = 1
             /\ calls[1][3] = otp
             /\ valid_otp

C16_Witness ==
  /\ pc = "returned"
  /\ result = PAM_SUCCESS
  /\ ~BypassOn
  /\ First12(otp) = user_mappings[user]
  /\ Len(otp) = 44
  /\ calls[1][3] = otp
  /\ response = << BodyOk >>

(***************************************************************************)
(* C17.  The token is asked for exactly once in every attempt that passes  *)
(* the identity check, bypass mode included, and never in an attempt whose *)
(* username has no device id.  The prompt comes after the mapping files    *)
(* have been read to the end and the identity check has passed, and before *)
(* the bypass check and every check of the token: at none of them, nor at  *)
(* a call of _check_otp, is the token still to be asked for.               *)
(***************************************************************************)
\* the attempt stands before the prompt
BeforePrompt ==
  pc \in { "idle", "parse_arguments", "directive", "parse_mapping_files",
           "line", "identity", "conversation" }

\* the attempt stands at the bypass check or at a later check
AtOrPastBypass ==
  pc \in { "bypass", "match", "empty", "length", "check_otp", "verdict" }

C17_TokenAskedOnceAfterIdentity ==
  /\ BeforePrompt => prompts = 0
  /\ AtOrPastBypass => prompts = 1
  /\ Terminated => prompts = (IF Mapped THEN 1 ELSE 0)
  /\ prompts > 0 => (Mapped /\ fi > Len(mapping_files) /\ user_mappings = mappings)
  /\ calls # << >> => prompts = 1

C17_Witness ==
  /\ pc = "returned"
  /\ BypassOn
  /\ Mapped
  /\ prompts = 1
  /\ calls = << >>
  /\ otp = << >>
  /\ result = PAM_SUCCESS

(***************************************************************************)
(* C18.  Every device id of the mapping table has exactly 12 characters    *)
(* and the match check comes before the emptiness and length check, so     *)
(* that check is only ever reached with a token of at least 12 characters: *)
(* at the match check a token shorter than 12, the empty one included,     *)
(* never matches and the attempt ends there with PAM_AUTH_ERR; the branch  *)
(* 'No OTP provided' is never taken.                                       *)
(***************************************************************************)
\* the attempt stands at the emptiness and length check or past it
AtOrPastStructuralCheck == pc \in { "empty", "length", "check_otp", "verdict" }

C18_StructuralCheckSeesLongTokens ==
  /\ \A u \in DOMAIN mappings : Len(mappings[u]) = 12
  /\ \A u \in DOMAIN user_mappings : Len(user_mappings[u]) = 12
  /\ AtOrPastStructuralCheck => Len(otp) >= 12
  /\ (pc = "match" /\ Len(otp) < 12) => First12(otp) # user_mappings[user]
  /\ (Terminated /\ Mapped /\ ~BypassOn /\ prompts = 1 /\ Len(otp) < 12)
       => (pc = "returned" /\ result = PAM_AUTH_ERR /\ calls = << >>)
  /\ \A i \in 1..Len(log) : log[i] # "No OTP provided"

C18_Witness ==
  /\ pc = "returned"
  /\ Mapped
  /\ ~BypassOn
  /\ prompts = 1
  /\ otp = << >>
  /\ ~logging_disabled
  /\ result = PAM_AUTH_ERR

(***************************************************************************)
(* C19.  Reading the mapping files terminates.  Every step of the loops of *)
(* _parse_mapping_files that stays in them brings the end nearer: the      *)
(* count of lines still to read and files still to close is never          *)
(* negative and goes down.  Every step on a line, a skipped wrong-length   *)
(* line included, goes on to the line after it in the same file, so the    *)
(* lines are dealt with once each, in file order.  At the end of the last  *)
(* file the function can return, and when it has returned every line of    *)
(* every candidate file has been dealt with.                               *)
(***************************************************************************)
\* what the loops still have before them: the lines not yet read and the
\* files not yet closed
LeftToRead ==
  (IF fi <= 1 /\ Len(mapping_files) >= 1 THEN Len(LinesOfFile(1)) + 1 ELSE 0)
    + (IF fi <= 2 /\ Len(mapping_files) >= 2 THEN Len(LinesOfFile(2)) + 1 ELSE 0)
    - (IF fi <= Len(mapping_files) THEN li - 1 ELSE 0)

\* the loop is at a line of a file
AtALine ==
  pc = "line" /\ fi <= Len(mapping_files) /\ li <= Len(LinesOfFile(fi))

\* the loop is past the last line of a file, or past the last file
AtAnEnd == pc = "line" /\ ~AtALine

C19_LineLoopTerminates ==
  [][pc = "line" =>
       /\ LeftToRead >= 0
       /\ pc' = "line" => LeftToRead' < LeftToRead
       /\ AtALine =>
            /\ fi' = fi
            /\ li' = li + 1
            /\ ProcessedLines' = Append(ProcessedLines, LinesOfFile(fi)[li])
       /\ AtAnEnd => ENABLED << NextFile \/ MappingFilesReturn >>_vars
       /\ pc' = "identity" =>
            /\ LeftToRead' = 0
            /\ ProcessedLines' = ConsultedLines']_vars

\* both files have been read to the end, a skipped wrong-length line among
\* the lines
C19_Witness ==
  /\ pc = "identity"
  /\ Len(mapping_files) = 2
  /\ Len(ProcessedLines) = MaxLines
  /\ \E i \in 1..Len(ProcessedLines) : ProcessedLines[i] = LineShortId

=============================================================================
